---- MODULE Spec2Model ----
(* Authenticated request client of the Choosy mini-program:                *)
(* request() with credential attachment, 401 refresh through               *)
(* handleTokenRefresh()/doRefreshToken(), and the bounded retry loop.      *)
(* JavaScript run-to-completion semantics: a step of the model is the      *)
(* code between two awaits.  Continuations of promises that were resolved  *)
(* without I/O (microtasks) run before any network response or timer.      *)
EXTENDS Integers, Sequences, FiniteSets

\* ---------------------------------------------------------------- bounds
NCallers == 2            \* concurrently running request() calls
MaxTok == 2              \* credential pairs ever issued by the backend
MaxTicks == 2            \* steps of the clock
MaxUrlLen == 3           \* length of a navigation url
MaxReqs == 3             \* recommendation requests issued

\* ------------------------------------------------------ program constants
Retries == 3             \* apiConfig.retries = API_RETRIES
Margin == 300            \* (expires_in - 300) * 1000: seconds taken off the lifetime
Ms == 1000               \* (expires_in - 300) * 1000: milliseconds per second

\* the clock advances in steps of the safety margin and does not start at 0
TickMs == Margin * Ms
Start == TickMs
\* expires_in of an issued pair: expired as soon as it is saved, or valid for
\* two steps of the clock
ExpiresIn == {Margin, 3 * Margin}

Callers == 1..NCallers
Toks == 1..MaxTok        \* 0 stands for "no value stored"

\* url.includes('/auth/token'), url.includes('/auth/')
Urls == {"/api/x", "/auth/x", "/auth/token"}
IsTokenPath(u) == u = "/auth/token"
IsAuthPath(u) == u \in {"/auth/x", "/auth/token"}

\* what the transport can answer to the original request
Bodies == {"b1", "b2"}

\* error bodies, named by the fields they carry
ErrorBodies == {"desc", "desc+message", "message", "message+detail", "detail", "none"}
Fields(d) ==
    CASE d = "desc" -> {"error_description"}
      [] d = "desc+message" -> {"error_description", "message"}
      [] d = "message" -> {"message"}
      [] d = "message+detail" -> {"message", "detail"}
      [] d = "detail" -> {"detail"}
      [] OTHER -> {}

Responses ==
    [status : {"2xx"}, data : Bodies]
      \cup [status : {"5xx"}, data : ErrorBodies]
      \cup [status : {"401", "neterr", "timeout"}, data : {"none"}]
NoResp == [status |-> "none", data |-> "none"]
Rejected(r) == r.status \in {"neterr", "timeout"}

\* what the transport can answer to POST /api/token
\* "200nodata" is a 200 answer with a null body, "200partial" a 200 answer
\* whose body has a refresh_token and no access_token and expires_in
RefreshResponses == {"200", "200nodata", "200partial", "400", "neterr", "timeout"}
WellFormed == RefreshResponses \ {"200partial"}

\* what the backend can answer to the token request of wxLogin()
LoginResponses == {"200", "400"}

\* the login-gated operations of the user service
UserOps == {"ensureValidToken", "fetchProfile", "updateProfile", "fetchStats"}

VARIABLES
    isRefreshing,   \* module flag
    refreshQueue,   \* module waiter list (callers whose callback is queued)
    storage,        \* Taro storage: access_token, refresh_token, token_expires_at, user_info
    call,           \* per request() call: position, locals and history
    nextTok,        \* next credential pair the backend will issue
    refreshLog,     \* history per access credential: refresh calls caused by its 401s
    clears,         \* history: runs of the credential-clearing block of request() (0, 1, many)
    netFails,       \* history: refresh network calls that failed (0, 1, many)
    env,            \* the callers, paths and transport answers of this run, and
                    \* whether the three histories above are recorded in it
    now,            \* Date.now()
    uop,            \* the user-service operation in progress and its outcome
    refreshFailed,  \* history: a refresh network call has failed since the last login
    AUTH_REQUIRED_PAGES,  \* routeGuard: the list of login-required page paths
    guardOn,        \* routeGuard: Taro.navigateTo and Taro.redirectTo are wrapped
    nav,            \* routeGuard: the latest navigation call and what became of it
    cacheState,     \* aiRecommendCache: the module-level cache object
    reqs,           \* aiRecommendCache: the getRecommendations() calls issued so far
    lastFetch       \* aiRecommendCache: what the fetchAiRecommendations() call of this step did

clientVars == <<isRefreshing, refreshQueue, storage, call, nextTok, refreshLog, clears, netFails,
                env, now, uop, refreshFailed>>
guardVars == <<AUTH_REQUIRED_PAGES, guardOn, nav>>
cacheVars == <<cacheState, reqs, lastFetch>>
vars == <<clientVars, guardVars, cacheVars>>

NoCall ==
    [pc |-> "idle", url |-> "/api/x", attempt |-> 0, token |-> 0,
     success |-> FALSE, refreshed |-> FALSE, awaited |-> "none",
     sent |-> 0, answered |-> 0, resp |-> NoResp, result |-> "none", data |-> "none"]

\* calls: refresh network calls started by a 401 to a request carrying the
\* credential; done: one of them has completed; late: 401s to requests
\* carrying the credential observed after that completion; ok: the first of
\* them succeeded
NoLog == [calls |-> 0, done |-> FALSE, ok |-> FALSE, late |-> 0]

NoUop == [op |-> "none", pc |-> "idle", result |-> "none", value |-> 0]

\* the slot of call used by the request() of a user-service operation
UserSlot == NCallers

\* Date.now() + (expires_in - 300) * 1000
ExpiresAt(e) == now + (e - Margin) * Ms

Cleared == [access_token |-> 0, refresh_token |-> 0, token_expires_at |-> 0, user_info |-> 0]
Stored(t, e) ==
    [access_token |-> t, refresh_token |-> t, token_expires_at |-> ExpiresAt(e), user_info |-> 1]

\* urls and page paths are strings over two letters; the list of
\* login-required pages starts with two paths, a third can be added
Letters == {"a", "b"}
NavUrls == UNION {[1..n -> Letters] : n \in 0..MaxUrlLen}
PagePaths == {<<"a", "b">>, <<"b", "a">>, <<"b">>}
InitialPages == <<<<"a", "b">>, <<"b", "a">>>>
NoNav == [api |-> "none", url |-> <<>>, outcome |-> "none", prompt |-> FALSE]

\* recommendation requests are numbered; 0 stands for null
Reqs == 1..MaxReqs
CACHE_TTL == 10 * 60 * Ms
\* a location is latitude and longitude in thousandths of a degree: the
\* first two round to the same key, the third to another
Locations == {[latitude |-> 1, longitude |-> 1], [latitude |-> 4, longitude |-> 1],
              [latitude |-> 6, longitude |-> 1]}
NoKey == <<>>
NoCache == [loading |-> FALSE, result |-> 0, error |-> FALSE, locationKey |-> NoKey,
            promise |-> 0, timestamp |-> 0]
NoReq == [state |-> "free", key |-> NoKey]
NoFetch == [key |-> NoKey, exclude |-> FALSE, kind |-> "none", req |-> 0, start |-> FALSE]

\* module state after load; the storage is that of a logged-out or of a
\* logged-in user
Loaded ==
    /\ cacheState = NoCache
    /\ reqs = [i \in Reqs |-> NoReq]
    /\ lastFetch = NoFetch
    /\ AUTH_REQUIRED_PAGES = InitialPages
    /\ guardOn = FALSE
    /\ nav = NoNav
    /\ now = Start
    /\ uop = NoUop
    /\ refreshFailed = FALSE
    /\ isRefreshing = FALSE
    /\ refreshQueue = <<>>
    /\ storage \in {Cleared, Stored(1, 3 * Margin)}
    /\ call = [c \in Callers |-> NoCall]
    /\ nextTok = 2
    /\ refreshLog = [g \in Toks |-> NoLog]
    /\ clears = 0
    /\ netFails = 0

\* concurrent calls on resource paths; one answer of each kind the code
\* tells apart (2xx, 401, other status, rejected promise)
Init ==
    /\ Loaded
    /\ env = [callers |-> Callers, urls |-> {"/api/x"},
              responses |-> {r \in Responses : r.data \in {"b1", "none"} /\ r.status # "timeout"},
              refreshes |-> WellFormed, expires |-> {3 * Margin}, log |-> TRUE, tick |-> TickMs]

\* two concurrent callers of one path, every kind of answer
InitLive ==
    /\ Loaded
    /\ env = [callers |-> {1, 2}, urls |-> {"/api/x"},
              responses |-> {r \in Responses : r.data \in {"b1", "none"} /\ r.status # "timeout"},
              refreshes |-> WellFormed, expires |-> {3 * Margin}, log |-> TRUE, tick |-> TickMs]

\* one request() call next to the operations of the user service, with a
\* clock, logins and logouts
InitUser ==
    /\ Loaded
    /\ env = [callers |-> {1}, urls |-> {"/api/x"},
              responses |-> {r \in Responses : r.data \in {"b1", "none"} /\ r.status \in {"2xx", "401"}},
              refreshes |-> {"200", "200partial", "400"}, expires |-> ExpiresIn, log |-> FALSE, tick |-> TickMs]

\* navigation under the route guard, with logins and logouts
InitGuard ==
    /\ Loaded
    /\ env = [callers |-> {}, urls |-> {}, responses |-> {},
              refreshes |-> {}, expires |-> {3 * Margin}, log |-> FALSE, tick |-> TickMs]

\* the recommendation cache; one step of the clock is the cache lifetime
InitCache ==
    /\ Loaded
    /\ storage = Cleared
    /\ env = [callers |-> {}, urls |-> {}, responses |-> {},
              refreshes |-> {}, expires |-> {3 * Margin}, log |-> FALSE, tick |-> CACHE_TTL]

\* one call, every path and every answer
InitSolo ==
    /\ Loaded
    /\ env = [callers |-> {1}, urls |-> Urls, responses |-> Responses,
              refreshes |-> WellFormed, expires |-> {3 * Margin}, log |-> TRUE, tick |-> TickMs]

\* getToken(): storage value or null
getToken == storage.access_token

\* a continuation of an await that needs no I/O is pending
Microtask ==
    \/ \E c \in Callers : call[c].pc \in {"refreshReturn", "afterRefresh", "resumed"}
    \/ uop.pc \in {"refreshOk", "refreshNull"}
    \/ uop.pc = "waitRequest" /\ call[UserSlot].pc = "done"

\* ------------------------------------------------------------- request()
\* request() returns or throws: its locals are gone, the outcome stays
Finish(k, result, data) ==
    [k EXCEPT !.pc = "done", !.result = result, !.data = data, !.token = 0,
              !.success = FALSE, !.refreshed = FALSE, !.awaited = "none"]

WithinBudgetOver(a) == a <= Retries + 1

\* attempt <= apiConfig.retries
WithinBudget(a) == a <= Retries

AttemptTokenStale(k) ==
    IF k.sent > 0 THEN k.token ELSE IF IsTokenPath(k.url) THEN 0 ELSE getToken

\* const token = url.includes('/auth/token') ? null : getToken(), read at
\* the start of every attempt; 0 is a request without Authorization header
AttemptToken(k) == IF IsTokenPath(k.url) THEN 0 ELSE getToken

\* head of the retry loop for attempt a: read the token, issue the transport
\* request; past the budget the loop ends and line 169 throws
LoopHead(k, a) ==
    IF WithinBudget(a)
    THEN [k EXCEPT !.pc = "waitResp", !.attempt = a,
                   !.token = AttemptToken(k),
                   !.sent = @ + 1, !.resp = NoResp,
                   !.success = FALSE, !.refreshed = FALSE, !.awaited = "none"]
    ELSE Finish([k EXCEPT !.attempt = a], "requestFailed", "none")

\* the catch block: wait and retry, or rethrow on the last attempt
RetryAfterCatch(k) == k.attempt < Retries

Catch(k, error) ==
    IF RetryAfterCatch(k)
    THEN [k EXCEPT !.pc = "delay", !.success = FALSE, !.refreshed = FALSE, !.awaited = "none"]
    ELSE Finish(k, error, "none")

ErrorMsgMessageFirst(r) ==
    IF "message" \in Fields(r.data) THEN "message"
    ELSE IF "error_description" \in Fields(r.data) THEN "error_description"
    ELSE IF "detail" \in Fields(r.data) THEN "detail"
    ELSE "statusFailed"

\* errorData?.error_description || errorData?.message || errorData?.detail
\*   || `请求失败: ${statusCode}`
ErrorMsg(r) ==
    IF "error_description" \in Fields(r.data) THEN "error_description"
    ELSE IF "message" \in Fields(r.data) THEN "message"
    ELSE IF "detail" \in Fields(r.data) THEN "detail"
    ELSE "statusFailed"

NeedsRefreshAnyPath(k, r) == r.status = "401"
NeedsRefreshAnyFailure(k, r) == r.status \in {"401", "5xx"} /\ ~IsAuthPath(k.url)

\* the 401 branch is taken
NeedsRefresh(k, r) == r.status = "401" /\ ~IsAuthPath(k.url)

JoinsQueueNever == FALSE

\* handleTokenRefresh(): a refresh is under way, queue a callback
JoinsQueue == isRefreshing

FlagWhileRefreshingUnset == isRefreshing

\* isRefreshing = true before `await doRefreshToken()`
FlagWhileRefreshing == TRUE

IsSuccessAny(r) == r.status \in {"2xx", "5xx"}

\* response.statusCode >= 200 && response.statusCode < 300
IsSuccess(r) == r.status = "2xx"

ReturnValueNone(r) == "none"

\* return response.data as T
ReturnValue(r) == r.data

\* doRefreshToken() returns false before any network call
NoRefreshToken == storage.refresh_token = 0

\* status failure that is not handled by the 401 branch: throw on the last
\* attempt, otherwise fall out of the try block into the next iteration
StatusFailure(k, r) ==
    IF k.attempt = Retries
    THEN Finish(k, ErrorMsg(r), "none")
    ELSE LoopHead(k, k.attempt + 1)

LogOn401(k, netcall) ==
    IF env.log /\ k.token \in Toks
    THEN [refreshLog EXCEPT ![k.token] =
            [@ EXCEPT !.late = IF refreshLog[k.token].done THEN @ + 1 ELSE @,
                      !.calls = IF netcall THEN @ + 1 ELSE @]]
    ELSE refreshLog

RequestStart(c, u) ==
    /\ ~Microtask
    /\ call[c].pc = "idle"
    /\ c \in env.callers /\ u \in env.urls
    /\ call' = [call EXCEPT ![c] = LoopHead([@ EXCEPT !.url = u], 1)]
    /\ UNCHANGED <<isRefreshing, refreshQueue, storage, nextTok, refreshLog, clears, netFails, env, now, uop, refreshFailed>>
    /\ UNCHANGED <<guardVars, cacheVars>>

\* the transport promise of the original request settles
Response(c, r) ==
    /\ ~Microtask
    /\ call[c].pc = "waitResp"
    /\ r \in env.responses
    /\ LET k == [call[c] EXCEPT !.resp = r, !.answered = @ + 1] IN
       IF Rejected(r) THEN
            /\ call' = [call EXCEPT ![c] = Catch(k, r.status)]
            /\ UNCHANGED <<isRefreshing, refreshQueue, refreshLog>>
       ELSE IF IsSuccess(r) THEN
            /\ call' = [call EXCEPT ![c] = Finish(k, "ok", ReturnValue(r))]
            /\ UNCHANGED <<isRefreshing, refreshQueue, refreshLog>>
       ELSE IF NeedsRefresh(k, r) THEN
            IF JoinsQueue THEN
                /\ refreshQueue' = Append(refreshQueue, c)
                /\ call' = [call EXCEPT ![c] = [k EXCEPT !.pc = "queued"]]
                /\ refreshLog' = LogOn401(k, FALSE)
                /\ UNCHANGED isRefreshing
            ELSE
                /\ isRefreshing' = FlagWhileRefreshing
                /\ call' = [call EXCEPT ![c] =
                      IF NoRefreshToken
                      THEN [k EXCEPT !.pc = "refreshReturn", !.success = FALSE]
                      ELSE [k EXCEPT !.pc = "waitRefresh"]]
                /\ refreshLog' = LogOn401(k, ~NoRefreshToken)
                /\ UNCHANGED refreshQueue
       ELSE
            /\ call' = [call EXCEPT ![c] = StatusFailure(k, r)]
            /\ UNCHANGED <<isRefreshing, refreshQueue, refreshLog>>
    /\ UNCHANGED <<storage, nextTok, clears, netFails, env, now, uop, refreshFailed>>
    /\ UNCHANGED <<guardVars, cacheVars>>

\* ------------------------------------------------------- doRefreshToken()
\* response.statusCode === 200 && response.data
RefreshOk(rr) == rr \in {"200", "200partial"}

\* the three values written from the body of a token answer; a missing
\* access_token reads back as absent, an expiry computed from a missing
\* expires_in is NaN and reads back as absent too
Written(rr, e) ==
    [storage EXCEPT !.access_token = IF rr = "200" THEN nextTok ELSE 0,
                    !.refresh_token = nextTok,
                    !.token_expires_at = IF rr = "200" THEN ExpiresAt(e) ELSE 0]

\* the transport promise of POST /api/token settles
RefreshResponse(c, rr, e) ==
    /\ ~Microtask
    /\ call[c].pc = "waitRefresh"
    /\ rr \in env.refreshes /\ e \in env.expires
    /\ RefreshOk(rr) => nextTok <= MaxTok
    /\ IF RefreshOk(rr)
       THEN /\ storage' = Written(rr, e)
            /\ nextTok' = nextTok + 1
       ELSE UNCHANGED <<storage, nextTok>>
    /\ refreshFailed' = (refreshFailed \/ ~RefreshOk(rr))
    /\ call' = [call EXCEPT ![c] = [@ EXCEPT !.pc = "refreshReturn", !.success = RefreshOk(rr)]]
    /\ refreshLog' = IF env.log /\ call[c].token \in Toks
                     THEN [refreshLog EXCEPT ![call[c].token] =
                              [@ EXCEPT !.done = TRUE,
                                        !.ok = IF refreshLog[call[c].token].done
                                               THEN @ ELSE RefreshOk(rr)]]
                     ELSE refreshLog
    /\ netFails' = IF ~env.log \/ RefreshOk(rr) \/ netFails >= 2 THEN netFails ELSE netFails + 1
    /\ UNCHANGED <<isRefreshing, refreshQueue, clears, env, now, uop>>
    /\ UNCHANGED <<guardVars, cacheVars>>

\* --------------------------------------------------- handleTokenRefresh()
\* value a queued callback resolves its promise with
WaiterValue(success) == TRUE

InQueueNone(q) == FALSE

\* refreshQueue.forEach(callback => callback()): every queued callback runs
InQueue(q) == \E i \in 1..Len(refreshQueue) : refreshQueue[i] = q

\* after `await doRefreshToken()`: reset the flag, run the callbacks
RefreshReturn(c) ==
    /\ call[c].pc = "refreshReturn"
    /\ isRefreshing' = FALSE
    /\ refreshQueue' = <<>>
    /\ call' = [q \in Callers |->
          IF q = c THEN [call[q] EXCEPT !.pc = "afterRefresh", !.refreshed = call[c].success,
                                        !.awaited = IF call[c].success THEN "ok" ELSE "fail"]
          ELSE IF InQueue(q) THEN [call[q] EXCEPT !.pc = "resumed",
                                        !.refreshed = WaiterValue(call[c].success),
                                        !.awaited = IF call[c].success THEN "ok" ELSE "fail"]
          ELSE call[q]]
    /\ UNCHANGED <<storage, nextTok, refreshLog, clears, netFails, env, now, uop, refreshFailed>>
    /\ UNCHANGED <<guardVars, cacheVars>>

RemoveCredentialsKeepRefresh == [Cleared EXCEPT !.refresh_token = storage.refresh_token]

\* the four Taro.removeStorageSync() calls of request()
RemoveCredentials == Cleared

ContinuesAnyOrder(c) == call[c].pc \in {"afterRefresh", "resumed"}

\* the continuations of `await handleTokenRefresh()` run in the order in
\* which their promises are fulfilled: the refresher's promise is fulfilled
\* by `return success`, a waiter's promise, which was resolved with the
\* promise of the queued callback, one job later
Continues(c) ==
    \/ call[c].pc = "afterRefresh"
    \/ call[c].pc = "resumed" /\ \A d \in Callers : call[d].pc # "afterRefresh"

\* request() after `await handleTokenRefresh()`
AfterRefresh(c) ==
    /\ Continues(c)
    /\ IF call[c].refreshed
       THEN /\ call' = [call EXCEPT ![c] = LoopHead(@, @.attempt + 1)]
            /\ UNCHANGED <<storage, clears>>
       ELSE /\ storage' = RemoveCredentials
            /\ clears' = IF ~env.log \/ clears >= 2 THEN clears ELSE clears + 1
            /\ call' = [call EXCEPT ![c] = Catch(@, "authExpired")]
    /\ UNCHANGED <<isRefreshing, refreshQueue, nextTok, refreshLog, netFails, env, now, uop, refreshFailed>>
    /\ UNCHANGED <<guardVars, cacheVars>>

TimerArmedEarly(k) == k.pc \in {"delay", "waitResp"}

\* await new Promise(resolve => setTimeout(resolve, 1000)) is reached only in
\* the catch block, after the await of Taro.request() has thrown
TimerArmed(k) == k.pc = "delay"

\* the 1000 ms timer of the catch block fires
DelayElapsed(c) ==
    /\ ~Microtask
    /\ TimerArmed(call[c])
    /\ call' = [call EXCEPT ![c] = LoopHead(@, @.attempt + 1)]
    /\ UNCHANGED <<isRefreshing, refreshQueue, storage, nextTok, refreshLog, clears, netFails, env, now, uop, refreshFailed>>
    /\ UNCHANGED <<guardVars, cacheVars>>

\* ------------------------------------------------------------ user service
getAccessToken == storage.access_token
getRefreshToken == storage.refresh_token

NoAccessTokenNever == FALSE

\* if (!token) return null
NoAccessToken == getAccessToken = 0

isTokenExpiringSoonAlways == TRUE

\* if (!expiresAt) return true; return Date.now() >= expiresAt
isTokenExpiringSoon ==
    IF storage.token_expires_at = 0 THEN TRUE ELSE now >= storage.token_expires_at

\* saveTokens() for a body with every field, and for "200partial"
saveTokens(rr, e) ==
    [storage EXCEPT !.access_token = IF rr = "200" THEN nextTok ELSE 0,
                    !.refresh_token = nextTok,
                    !.token_expires_at = IF rr = "200" THEN ExpiresAt(e) ELSE 0]

\* requestToken() returns a body saveTokens() can read: a 2xx answer whose
\* body is not null
TokenOk(rr) == rr \in {"200", "200partial"}

UopDone(op, result, value) == [op |-> op, pc |-> "done", result |-> result, value |-> value]

\* the operation goes on with a credential it takes for valid:
\* ensureValidToken() returns it, the others call request()
Proceed(op, value) ==
    IF op = "ensureValidToken"
    THEN /\ uop' = UopDone(op, IF value = 0 THEN "null" ELSE "token", value)
         /\ UNCHANGED call
    ELSE /\ uop' = [op |-> op, pc |-> "waitRequest", result |-> "none", value |-> 0]
         /\ call' = [call EXCEPT ![UserSlot] = LoopHead([NoCall EXCEPT !.url = "/api/x"], 1)]

\* ensureValidToken(), fetchProfile(), updateProfile() or fetchStats() is
\* called and runs to its first await or to its return
UserOpStart(op) ==
    /\ ~Microtask
    /\ uop.pc \in {"idle", "done"}
    /\ call[UserSlot].pc = "idle"
    /\ IF NoAccessToken THEN
            uop' = UopDone(op, "null", 0) /\ UNCHANGED call
       ELSE IF isTokenExpiringSoon THEN
            /\ uop' = IF getRefreshToken = 0
                       THEN UopDone(op, "null", 0)
                       ELSE [op |-> op, pc |-> "waitRefresh", result |-> "none", value |-> 0]
            /\ UNCHANGED call
       ELSE Proceed(op, getAccessToken)
    /\ UNCHANGED <<isRefreshing, refreshQueue, storage, nextTok, refreshLog, clears, netFails,
                   env, now, refreshFailed>>
    /\ UNCHANGED <<guardVars, cacheVars>>

\* the token request of refreshToken() settles: saveTokens() or clearAll()
UserRefreshResponse(rr, e) ==
    /\ ~Microtask
    /\ uop.pc = "waitRefresh"
    /\ rr \in env.refreshes /\ e \in env.expires
    /\ TokenOk(rr) => nextTok <= MaxTok
    /\ IF TokenOk(rr)
       THEN /\ storage' = saveTokens(rr, e)
            /\ nextTok' = nextTok + 1
            /\ uop' = [uop EXCEPT !.pc = "refreshOk", !.value = storage'.access_token]
            /\ UNCHANGED refreshFailed
       ELSE /\ storage' = Cleared
            /\ uop' = [uop EXCEPT !.pc = "refreshNull"]
            /\ refreshFailed' = TRUE
            /\ UNCHANGED nextTok
    /\ UNCHANGED <<isRefreshing, refreshQueue, call, refreshLog, clears, netFails, env, now>>
    /\ UNCHANGED <<guardVars, cacheVars>>

\* the operation after `await refreshToken()`
UserAfterRefresh ==
    /\ uop.pc \in {"refreshOk", "refreshNull"}
    /\ IF uop.pc = "refreshNull"
       THEN uop' = UopDone(uop.op, "null", 0) /\ UNCHANGED call
       ELSE Proceed(uop.op, uop.value)
    /\ UNCHANGED <<isRefreshing, refreshQueue, storage, nextTok, refreshLog, clears, netFails,
                   env, now, refreshFailed>>
    /\ UNCHANGED <<guardVars, cacheVars>>

\* the operation after `await request(...)`: saveUserInfo() and return the
\* body, or return null; updateProfile() rethrows
UserRequestDone ==
    /\ uop.pc = "waitRequest"
    /\ call[UserSlot].pc = "done"
    /\ LET ok == call[UserSlot].result = "ok" IN
       /\ uop' = UopDone(uop.op,
                    IF ok THEN "body" ELSE IF uop.op = "updateProfile" THEN "error" ELSE "null", 0)
       /\ storage' = IF ok /\ uop.op \in {"fetchProfile", "updateProfile"}
                     THEN [storage EXCEPT !.user_info = 1] ELSE storage
    /\ call' = [call EXCEPT ![UserSlot] = NoCall]
    /\ UNCHANGED <<isRefreshing, refreshQueue, nextTok, refreshLog, clears, netFails,
                   env, now, refreshFailed>>
    /\ UNCHANGED <<guardVars, cacheVars>>

\* wxLogin() is called: Taro.login(), then the token request
LoginStart ==
    /\ ~Microtask
    /\ uop.pc \in {"idle", "done"}
    /\ uop' = [op |-> "wxLogin", pc |-> "waitLogin", result |-> "none", value |-> 0]
    /\ UNCHANGED <<isRefreshing, refreshQueue, storage, call, nextTok, refreshLog, clears,
                   netFails, env, now, refreshFailed>>
    /\ UNCHANGED <<guardVars, cacheVars>>

\* the token request of wxLogin() settles: saveTokens(), or the error is thrown
LoginResponse(lr, e) ==
    /\ ~Microtask
    /\ uop.pc = "waitLogin"
    /\ e \in env.expires
    /\ IF lr = "200"
       THEN /\ nextTok <= MaxTok
            /\ storage' = saveTokens(lr, e)
            /\ nextTok' = nextTok + 1
            /\ refreshFailed' = FALSE
            /\ uop' = UopDone("wxLogin", "loggedIn", nextTok)
       ELSE /\ uop' = UopDone("wxLogin", "error", 0)
            /\ UNCHANGED <<storage, nextTok, refreshFailed>>
    /\ UNCHANGED <<isRefreshing, refreshQueue, call, refreshLog, clears, netFails, env, now>>
    /\ UNCHANGED <<guardVars, cacheVars>>

\* logout(): clearAll()
Logout ==
    /\ ~Microtask
    /\ storage # Cleared
    /\ storage' = Cleared
    /\ UNCHANGED <<isRefreshing, refreshQueue, call, nextTok, refreshLog, clears, netFails,
                   env, now, uop, refreshFailed>>
    /\ UNCHANGED <<guardVars, cacheVars>>

\* time passes
Tick ==
    /\ ~Microtask
    /\ now < Start + MaxTicks * env.tick
    /\ now' = now + env.tick
    /\ UNCHANGED <<isRefreshing, refreshQueue, storage, call, nextTok, refreshLog, clears,
                   netFails, env, uop, refreshFailed>>
    /\ UNCHANGED <<guardVars, cacheVars>>

\* -------------------------------------------------------------- routeGuard
\* url.includes(page)
Includes(url, page) ==
    \E i \in 0..(Len(url) - Len(page)) : SubSeq(url, i + 1, i + Len(page)) = page

requiresAuthExact(url) ==
    \E i \in 1..Len(AUTH_REQUIRED_PAGES) : AUTH_REQUIRED_PAGES[i] = url

\* AUTH_REQUIRED_PAGES.some(page => url.includes(page))
requiresAuth(url) ==
    \E i \in 1..Len(AUTH_REQUIRED_PAGES) : Includes(url, AUTH_REQUIRED_PAGES[i])

\* !!getAccessToken()
isLoggedIn == getAccessToken # 0

\* initRouteGuard() replaces Taro.navigateTo and Taro.redirectTo by wrappers
\* around the functions it found
initRouteGuard ==
    /\ ~guardOn
    /\ guardOn' = TRUE
    /\ UNCHANGED <<clientVars, AUTH_REQUIRED_PAGES, nav, cacheVars>>

\* Taro.navigateTo({url}) or Taro.redirectTo({url}) is called
Navigate(api, url) ==
    /\ nav' = IF guardOn /\ requiresAuth(url) /\ ~isLoggedIn
              THEN [api |-> api, url |-> url, outcome |-> "rejected", prompt |-> TRUE]
              ELSE [api |-> api, url |-> url, outcome |-> "original", prompt |-> FALSE]
    /\ UNCHANGED <<clientVars, AUTH_REQUIRED_PAGES, guardOn, cacheVars>>

\* AUTH_REQUIRED_PAGES.indexOf(pagePath), counted from 1; 0 when absent
IndexOf(pagePath) ==
    IF \E i \in 1..Len(AUTH_REQUIRED_PAGES) : AUTH_REQUIRED_PAGES[i] = pagePath
    THEN CHOOSE i \in 1..Len(AUTH_REQUIRED_PAGES) :
            /\ AUTH_REQUIRED_PAGES[i] = pagePath
            /\ \A j \in 1..(i - 1) : AUTH_REQUIRED_PAGES[j] # pagePath
    ELSE 0

addAuthRequiredPage(pagePath) ==
    /\ AUTH_REQUIRED_PAGES' = IF IndexOf(pagePath) = 0
                              THEN Append(AUTH_REQUIRED_PAGES, pagePath)
                              ELSE AUTH_REQUIRED_PAGES
    /\ UNCHANGED <<clientVars, guardOn, nav, cacheVars>>

removeAuthRequiredPage(pagePath) ==
    /\ AUTH_REQUIRED_PAGES' =
            IF IndexOf(pagePath) > 0
            THEN SubSeq(AUTH_REQUIRED_PAGES, 1, IndexOf(pagePath) - 1)
                    \o SubSeq(AUTH_REQUIRED_PAGES, IndexOf(pagePath) + 1, Len(AUTH_REQUIRED_PAGES))
            ELSE AUTH_REQUIRED_PAGES
    /\ UNCHANGED <<clientVars, guardOn, nav, cacheVars>>

\* -------------------------------------------------------- aiRecommendCache
\* toFixed(2) of a non-negative value given in thousandths, in hundredths
ToFixed2(x) == (x + 5) \div 10

getLocationKey(location) == <<ToFixed2(location.latitude), ToFixed2(location.longitude)>>

isCacheValidNoTtl(key) ==
    /\ cacheState.result # 0
    /\ cacheState.locationKey # NoKey
    /\ cacheState.locationKey = key

isCacheValid(key) ==
    /\ cacheState.result # 0
    /\ cacheState.locationKey # NoKey
    /\ cacheState.locationKey = key
    /\ ~(now - cacheState.timestamp > CACHE_TTL)

isRequestPending == cacheState.loading /\ cacheState.promise # 0

\* cacheState.loading && cacheState.promise && cacheState.locationKey === locationKey
SharesPending(key) == isRequestPending /\ cacheState.locationKey = key

\* getCachedResult(location): the stored result, or 0 for null
getCachedResult(location) ==
    IF isCacheValid(getLocationKey(location)) THEN cacheState.result ELSE 0

\* the request a new fetch issues
FreeReq == CHOOSE i \in Reqs : reqs[i].state = "free" /\ \A j \in 1..(i - 1) : reqs[j].state # "free"

\* fetchAiRecommendations(location, limit, excludeIds) up to its return
fetchAiRecommendations(location, exclude) ==
    LET key == getLocationKey(location) IN
    /\ IF ~exclude /\ isCacheValid(key)
       THEN /\ lastFetch' = [key |-> key, exclude |-> exclude, kind |-> "cached",
                             req |-> cacheState.result, start |-> FALSE]
            /\ UNCHANGED <<cacheState, reqs>>
       ELSE IF ~exclude /\ SharesPending(key)
       THEN /\ lastFetch' = [key |-> key, exclude |-> exclude, kind |-> "shared",
                             req |-> cacheState.promise, start |-> FALSE]
            /\ UNCHANGED <<cacheState, reqs>>
       ELSE /\ \E i \in Reqs : reqs[i].state = "free"
            /\ cacheState' = [loading |-> TRUE, result |-> 0, error |-> FALSE,
                              locationKey |-> key, promise |-> FreeReq, timestamp |-> now]
            /\ reqs' = [reqs EXCEPT ![FreeReq] =
                                [state |-> "flight", key |-> key]]
            /\ lastFetch' = [key |-> key, exclude |-> exclude, kind |-> "new",
                             req |-> FreeReq, start |-> TRUE]
    /\ UNCHANGED <<clientVars, guardVars>>

\* the .then() handler of request i
RecommendSuccess(i) ==
    /\ reqs[i].state = "flight"
    /\ reqs' = [reqs EXCEPT ![i].state = "ok"]
    /\ cacheState' = [cacheState EXCEPT !.loading = FALSE, !.result = i,
                                        !.error = FALSE, !.timestamp = now]
    /\ lastFetch' = NoFetch
    /\ UNCHANGED <<clientVars, guardVars>>

\* the .catch() handler of request i
RecommendError(i) ==
    /\ reqs[i].state = "flight"
    /\ reqs' = [reqs EXCEPT ![i].state = "err"]
    /\ cacheState' = [cacheState EXCEPT !.loading = FALSE, !.error = TRUE, !.promise = 0]
    /\ lastFetch' = NoFetch
    /\ UNCHANGED <<clientVars, guardVars>>

clearCache ==
    /\ cacheState' = NoCache
    /\ lastFetch' = NoFetch
    /\ UNCHANGED <<clientVars, guardVars, reqs>>

Next ==
    \/ \E c \in Callers, u \in Urls : RequestStart(c, u)
    \/ \E c \in Callers, r \in Responses : Response(c, r)
    \/ \E c \in Callers, rr \in RefreshResponses, e \in ExpiresIn : RefreshResponse(c, rr, e)
    \/ \E c \in Callers : RefreshReturn(c)
    \/ \E c \in Callers : AfterRefresh(c)
    \/ \E c \in Callers : DelayElapsed(c)

Spec == Init /\ [][Next]_vars
SpecSolo == InitSolo /\ [][Next]_vars

\* every transport call completes, every timer fires, and the event loop
\* runs every continuation that is ready
Fairness ==
    \A c \in Callers :
        /\ WF_vars(\E r \in Responses : Response(c, r))
        /\ WF_vars(\E rr \in RefreshResponses, e \in ExpiresIn : RefreshResponse(c, rr, e))
        /\ WF_vars(RefreshReturn(c))
        /\ WF_vars(AfterRefresh(c))
        /\ WF_vars(DelayElapsed(c))

NextUser ==
    \/ \E c \in Callers, u \in Urls : RequestStart(c, u)
    \/ \E c \in Callers, r \in Responses : Response(c, r)
    \/ \E c \in Callers, rr \in RefreshResponses, e \in ExpiresIn : RefreshResponse(c, rr, e)
    \/ \E c \in Callers : RefreshReturn(c)
    \/ \E c \in Callers : AfterRefresh(c)
    \/ \E c \in Callers : DelayElapsed(c)
    \/ \E op \in UserOps : UserOpStart(op)
    \/ \E rr \in RefreshResponses, e \in ExpiresIn : UserRefreshResponse(rr, e)
    \/ UserAfterRefresh
    \/ UserRequestDone
    \/ LoginStart
    \/ \E lr \in LoginResponses, e \in ExpiresIn : LoginResponse(lr, e)
    \/ Logout
    \/ Tick

SpecUser == InitUser /\ [][NextUser]_vars

NextGuard ==
    \/ initRouteGuard
    \/ \E api \in {"navigateTo", "redirectTo"}, url \in NavUrls : Navigate(api, url)
    \/ \E pagePath \in PagePaths : addAuthRequiredPage(pagePath)
    \/ \E pagePath \in PagePaths : removeAuthRequiredPage(pagePath)
    \/ LoginStart
    \/ \E lr \in LoginResponses, e \in ExpiresIn : LoginResponse(lr, e)
    \/ Logout

SpecGuard == InitGuard /\ [][NextGuard]_vars

NextCache ==
    \/ \E location \in Locations, exclude \in BOOLEAN : fetchAiRecommendations(location, exclude)
    \/ \E i \in Reqs : RecommendSuccess(i)
    \/ \E i \in Reqs : RecommendError(i)
    \/ clearCache
    \/ Tick

SpecCache == InitCache /\ [][NextCache]_vars

SpecLive == InitLive /\ [][Next]_vars /\ Fairness

\* ------------------------------------------------------------ properties
Done(c) == call[c].pc = "done"
Steps(c) == call'[c] # call[c]
RefreshInFlight == {c \in Callers : call[c].pc = "waitRefresh"}

\* C1: at every moment at most one refresh network call started through
\* handleTokenRefresh()/doRefreshToken() is in flight, however many
\* request() calls run concurrently.
C1_AtMostOneRefreshInFlight == Cardinality(RefreshInFlight) <= 1

\* a refresh call is in flight while another caller waits on the queue
C1_Witness ==
    \E c, d \in Callers : call[c].pc = "waitRefresh" /\ call[d].pc = "queued"

\* C2: when the callers that carried one credential all observe their 401
\* before the refresh started by the first of them has completed, and that
\* refresh succeeds, exactly one refresh network call is issued for them.
C2_OneRefreshForSimultaneous401 ==
    \A g \in Toks :
        (refreshLog[g].calls >= 1 /\ refreshLog[g].done /\ refreshLog[g].ok
            /\ refreshLog[g].late = 0)
        => refreshLog[g].calls = 1

\* a refresher and a waiter of the same credential, both released by the
\* one successful refresh
C2_Witness ==
    \E c, d \in Callers :
        /\ call[c].pc = "afterRefresh" /\ call[d].pc = "resumed"
        /\ call[c].awaited = "ok" /\ call[d].awaited = "ok"
        /\ call[c].token = call[d].token /\ call[c].token \in Toks
        /\ refreshLog[call[c].token].calls = 1
        /\ refreshLog[call[c].token].late = 0

\* C3 as stated: when the refresh succeeds, the calls sent with one expired
\* credential cause exactly one refresh network call, in every interleaving
\* of their 401 responses with the completion of the refresh.
C3_OneRefreshPerCredential ==
    \A g \in Toks : refreshLog[g].ok => refreshLog[g].calls <= 1

\* C3 amended: the calls sent with one credential cause one refresh network
\* call, plus at most one for each of their 401 responses that is observed
\* after a refresh for that credential has completed.
C3_OneRefreshPlusLate401 ==
    \A g \in Toks : refreshLog[g].calls <= 1 + refreshLog[g].late

\* a 401 that arrived after the successful refresh started a second one
C3_Witness ==
    \E g \in Toks :
        refreshLog[g].ok /\ refreshLog[g].calls = 2 /\ refreshLog[g].late = 1

\* C4: after a successful refresh the call re-issues its request once, on
\* whichever attempt (1, 2 or 3) the 401 was received.
C4_ReissuedAfterRefresh ==
    [][\A c \in Callers :
        (call[c].pc \in {"afterRefresh", "resumed"} /\ call[c].awaited = "ok" /\ Steps(c))
        => (call'[c].pc = "waitResp" /\ call'[c].sent = call[c].sent + 1)]_vars

\* C5: a call whose own refresh failed issues no further transport request
\* and throws the authentication-expired error, on whichever attempt.
C5_FailedRefreshIsTerminal ==
    [][\A c \in Callers :
        (call[c].pc = "afterRefresh" /\ call[c].awaited = "fail" /\ Steps(c))
        => (call'[c].pc = "done" /\ call'[c].result = "authExpired"
              /\ call'[c].sent = call[c].sent)]_vars

\* C6: when a refresh fails, every call suspended on the waiter list for it
\* fails with the authentication-expired error.
C6_WaitersFailOnFailedRefresh ==
    [][\A c \in Callers :
        (call[c].pc = "resumed" /\ call[c].awaited = "fail" /\ Steps(c))
        => (call'[c].pc = "done" /\ call'[c].result = "authExpired")]_vars

\* C7: for one failed refresh the stored credentials are cleared exactly
\* once in total, counted until the calls involved have returned or thrown.
C7_ClearedOnce ==
    (netFails = 1 /\ \A c \in Callers : call[c].pc \in {"idle", "done"})
    => clears = 1

\* C8: a call issues at most 3 transport requests for its original
\* request, whatever the outcomes of its attempts.
C8_AtMostThreeRequests == \A c \in Callers : call[c].sent <= Retries

\* a call that used the whole budget
C8_Witness == \E c \in Callers : Done(c) /\ call[c].sent = Retries

\* C9: after a non-401 failure that is not the last attempt, the next attempt
\* starts only when the 1-second delay has elapsed: a request is issued at
\* the start of the call, after the delay, or after a refresh.
C9_DelayBeforeRetry ==
    [][\A c \in Callers :
        call'[c].sent = call[c].sent + 1
        => call[c].pc \in {"idle", "delay", "afterRefresh", "resumed"}]_vars

\* C10: a 2xx on any attempt ends the call at once with that response's
\* body and without another request; on the first attempt exactly one
\* request was made and no delay state was passed.
C10_SuccessReturnsBody ==
    [][\A c \in Callers :
        /\ (call[c].pc = "waitResp" /\ Steps(c) /\ call'[c].resp.status = "2xx")
            => /\ call'[c].pc = "done" /\ call'[c].result = "ok"
               /\ call'[c].data = call'[c].resp.data
               /\ call'[c].sent = call[c].sent
               /\ call[c].attempt = 1 => call'[c].sent = 1
        /\ (call'[c].result = "ok" /\ call[c].result # "ok")
            => call[c].pc = "waitResp" /\ call'[c].resp.status = "2xx"
        /\ Done(c) => ~Steps(c)]_vars

\* a call returned the body of a 2xx received on its first attempt
C10_Witness ==
    \E c \in Callers :
        Done(c) /\ call[c].result = "ok" /\ call[c].attempt = 1 /\ call[c].data = "b2"

\* C11: one request() call enters the refresh path at most once: when the
\* request re-issued after its successful refresh is answered 401 again, the
\* call starts no second refresh.  With a single call and a logged-in start,
\* nextTok > 2 says that a refresh of this call has succeeded.
C11_RefreshPathOnce ==
    [][\A c \in Callers :
        (call[c].pc = "waitResp" /\ call'[c].pc \in {"waitRefresh", "refreshReturn", "queued"})
        => nextTok = 2]_vars

\* C12: a caller that enters handleTokenRefresh() while a refresh is in
\* progress starts no refresh network call in that invocation, leaves the
\* queue only when the refresher's handleTokenRefresh() has resumed from its
\* doRefreshToken(), and then sends its request with the access credential
\* read from storage at that moment.
C12_WaiterSharesRefresh ==
    [][\A c \in Callers :
        /\ (call'[c].pc = "queued" /\ call[c].pc # "queued")
            => /\ isRefreshing
               /\ \A g \in Toks : refreshLog'[g].calls = refreshLog[g].calls
               /\ RefreshInFlight' = RefreshInFlight
        /\ (call[c].pc = "queued" /\ Steps(c))
            => /\ call'[c].pc = "resumed"
               /\ \E d \in Callers : call[d].pc = "refreshReturn" /\ call'[d].pc = "afterRefresh"
               /\ ~isRefreshing'
        /\ (call[c].pc = "resumed" /\ Steps(c) /\ call'[c].pc = "waitResp")
            => call'[c].token = storage.access_token]_vars

\* a waiter released by a successful refresh, about to re-read the credential
\* that changed while it was suspended
C12_Witness ==
    \E c \in Callers :
        /\ call[c].pc = "resumed" /\ call[c].awaited = "ok"
        /\ call[c].attempt < Retries
        /\ storage.access_token # call[c].token

\* C13 (as stated): every transport request for a path other than the
\* credential-issuing endpoint carries an Authorization header whose
\* credential is the one stored when the attempt starts.
C13_AlwaysBearer ==
    [][\A c \in Callers :
        (call'[c].sent = call[c].sent + 1 /\ ~IsTokenPath(call'[c].url))
            => /\ call'[c].token \in Toks
               /\ call'[c].token = storage.access_token]_vars

\* C13 (amended): a transport request for such a path carries the credential
\* stored when the attempt starts if one is stored and no Authorization
\* header otherwise; a request for the credential-issuing endpoint never
\* carries one.
C13_BearerWhenStored ==
    [][\A c \in Callers :
        call'[c].sent = call[c].sent + 1
            => call'[c].token = IF IsTokenPath(call'[c].url) THEN 0
                                ELSE storage.access_token]_vars

\* a retry sent with the credential a refresh stored after the first attempt
C13_Witness ==
    \E c \in Callers :
        /\ call[c].pc = "waitResp" /\ call[c].attempt >= 2
        /\ ~IsTokenPath(call[c].url)
        /\ call[c].token = storage.access_token /\ call[c].token = 2

\* a request() call that has thrown
Failed(c) == Done(c) /\ call[c].result # "ok"

Refreshing == {c \in Callers : call[c].pc \in {"waitRefresh", "refreshReturn"}}

\* C19: isRefreshing is true exactly while a refresh call of the coordinator
\* is awaited, the waiter list is non-empty only while the flag is true, and
\* when the refresh completes the flag is false and the list is empty.
C19_FlagTracksRefresh ==
    /\ []((isRefreshing <=> Refreshing # {}) /\ (refreshQueue # <<>> => isRefreshing))
    /\ [][\A c \in Callers :
            (c \in Refreshing /\ c \notin Refreshing')
                => ~isRefreshing' /\ refreshQueue' = <<>>]_vars

\* a refresh has just completed with a waiter on the list: the refresher and
\* the released waiter are both about to continue
C19_Witness ==
    \E c, d \in Callers :
        /\ call[c].pc = "afterRefresh" /\ call[d].pc = "resumed"
        /\ ~isRefreshing /\ refreshQueue = <<>>

\* C20: provided every transport call eventually completes, every caller on
\* the waiter list is eventually resumed and every request() call eventually
\* returns or throws.
C20_EveryCallEnds ==
    \A c \in Callers :
        /\ (call[c].pc = "queued") ~> (call[c].pc = "resumed")
        /\ (call[c].pc # "idle") ~> Done(c)

\* a waiter resumed by a refresh that failed
C20_Witness ==
    \E c \in Callers : call[c].pc = "resumed" /\ call[c].awaited = "fail"

\* a login-gated operation of the user service is called in this step
UserCalled(op) == uop.pc \in {"idle", "done"} /\ uop' # uop /\ uop'.op = op

\* the recorded expiry of the stored credential is still in the future
Unexpired == storage.token_expires_at # 0 /\ now < storage.token_expires_at

\* C15: with an access credential stored whose recorded expiry has not been
\* reached, ensureValidToken() returns the stored credential, issues no
\* network call and leaves storage unchanged, at every call.
C15_ValidTokenShortCircuit ==
    [][(UserCalled("ensureValidToken") /\ storage.access_token # 0 /\ Unexpired)
        => /\ uop' = UopDone("ensureValidToken", "token", storage.access_token)
           /\ storage' = storage
           /\ call' = call /\ nextTok' = nextTok]_vars

\* ensureValidToken() has returned the stored credential after time has
\* passed since it was saved
C15_Witness ==
    /\ uop = UopDone("ensureValidToken", "token", storage.access_token)
    /\ storage.access_token # 0 /\ Unexpired
    /\ now > Start

\* C16: with no access credential stored, ensureValidToken(), fetchProfile(),
\* updateProfile() and fetchStats() return null without any network call,
\* even when a refresh credential is stored.
C16_GatedWithoutCredential ==
    [][\A op \in UserOps :
        (UserCalled(op) /\ storage.access_token = 0)
            => /\ uop' = UopDone(op, "null", 0)
               /\ call' = call /\ storage' = storage]_vars

\* an operation has returned null while only a refresh credential is stored
C16_Witness ==
    /\ uop.pc = "done" /\ uop.op \in UserOps /\ uop.result = "null"
    /\ storage.access_token = 0 /\ storage.refresh_token # 0

\* C17: an access credential is attached to an outgoing call only if its
\* recorded expiry, save time + (expires_in - 300) s, is still in the future
\* when the call is sent.
C17_AttachedOnlyUnexpired ==
    [][\A c \in Callers :
        (call'[c].sent = call[c].sent + 1 /\ call'[c].token # 0) => Unexpired]_vars

\* C18: after a refresh has failed, no refresh network call is started by a
\* request() call, a released waiter or a refreshToken() caller until a
\* login has stored a fresh credential pair.
C18_NoRefreshAfterFailure ==
    [][refreshFailed =>
        /\ \A c \in Callers : call'[c].pc = "waitRefresh" => call[c].pc = "waitRefresh"
        /\ uop'.pc = "waitRefresh" => uop.pc = "waitRefresh"]_vars

\* C21: within one request() call the attempts are strictly sequential: when
\* the transport request of the next attempt is issued, every transport
\* request the call issued before has been answered (by a response, an error
\* or a timeout), so at most one is outstanding.
C21_AttemptsSequential ==
    /\ [](\A c \in Callers :
            /\ call[c].sent - call[c].answered \in {0, 1}
            /\ call[c].sent - call[c].answered = 1 <=> call[c].pc = "waitResp")
    /\ [][\A c \in Callers :
            call'[c].sent = call[c].sent + 1 => call'[c].answered = call[c].sent]_vars

\* the third attempt is outstanding, the first two have been answered
C21_Witness ==
    \E c \in Callers :
        call[c].pc = "waitResp" /\ call[c].sent = Retries /\ call[c].answered = Retries - 1

\* no access credential, refresh credential or expiry is stored
CredentialsCleared ==
    storage.access_token = 0 /\ storage.refresh_token = 0 /\ storage.token_expires_at = 0

\* the refresher's handleTokenRefresh() resets the flag and runs the callbacks
FlagReset(c) == call[c].pc = "refreshReturn" /\ isRefreshing /\ ~isRefreshing'

\* C23 (as stated): when the coordinator resets the flag and releases the
\* waiters, the outcome of the refresh has been applied to storage: the new
\* credentials are stored after a success, all credentials are cleared after
\* a failure.
C23_OutcomeBeforeRelease ==
    [][\A c \in Callers :
        FlagReset(c) =>
            IF call[c].success THEN storage.refresh_token = nextTok - 1
            ELSE CredentialsCleared]_vars

\* C23 (amended): after a success the new credentials are stored when the
\* flag is reset; after a failure they are cleared by the refresher's
\* request() once the flag is reset and the waiters are released, but before
\* any released waiter continues, so no waiter reads them.
C23_ClearedBeforeWaiterContinues ==
    [][\A c \in Callers :
        /\ (FlagReset(c) /\ call[c].success) => storage.refresh_token = nextTok - 1
        /\ (call[c].pc = "afterRefresh" /\ call[c].awaited = "fail" /\ Steps(c))
                => CredentialsCleared'
        /\ (call[c].pc = "resumed" /\ call[c].awaited = "fail" /\ Steps(c))
                => CredentialsCleared]_vars

\* a waiter released by a failed refresh is the next to continue, and the
\* credentials are gone
C23_Witness ==
    \E c \in Callers :
        /\ call[c].pc = "resumed" /\ call[c].awaited = "fail" /\ call[c].token # 0
        /\ Continues(c) /\ CredentialsCleared /\ ~isRefreshing

C24_SingleWriter ==
    ~(uop.pc = "waitRefresh" /\ \E c \in Callers : call[c].pc = "waitRefresh")

\* C25: a 401 answer to a call whose path contains /auth/ starts no refresh
\* and clears no credential; it is an ordinary failure: the call never enters
\* the refresh path, changes neither storage nor the coordinator, and when the
\* third answer is a 401 too it throws the message of that answer.
C25_AuthPath401IsOrdinary ==
    /\ [](\A c \in Callers :
            IsAuthPath(call[c].url) =>
                /\ call[c].pc \in {"idle", "waitResp", "delay", "done"}
                /\ (Done(c) /\ call[c].resp.status = "401")
                        => call[c].result = "statusFailed" /\ call[c].sent = Retries)
    /\ [][\A c \in Callers :
            (IsAuthPath(call'[c].url) /\ Steps(c))
                => /\ storage' = storage
                   /\ isRefreshing' = isRefreshing
                   /\ refreshQueue' = refreshQueue]_vars

\* a call on a credential path has thrown after three 401 answers, the
\* credentials are still stored
C25_Witness ==
    \E c \in Callers :
        /\ IsAuthPath(call[c].url) /\ Done(c) /\ call[c].sent = Retries
        /\ call[c].resp.status = "401" /\ call[c].result = "statusFailed"
        /\ storage.access_token # 0

\* C30: a request() call that receives no 401 leaves the stored credentials,
\* the in-progress flag and the waiter list unchanged: every step that
\* changes one of them is a step of a call whose current answer is a 401.
C30_No401NoWrite ==
    [][(storage' # storage \/ isRefreshing' # isRefreshing \/ refreshQueue' # refreshQueue)
        => \E c \in Callers :
              /\ Steps(c)
              /\ call[c].resp.status = "401" \/ call'[c].resp.status = "401"]_vars

\* a call has thrown after three answers none of which was a 401 taken on the
\* refresh branch: the first pair is still stored and no refresh has run
C30_Witness ==
    \E c \in Callers :
        /\ Failed(c) /\ call[c].sent = Retries /\ ~IsAuthPath(call[c].url)
        /\ call[c].resp.status \in {"5xx", "neterr", "timeout"}
        /\ storage = Stored(1, 3 * Margin) /\ nextTok = 2
        /\ ~isRefreshing /\ refreshQueue = <<>>

\* C28: once initRouteGuard() has run, a navigateTo or redirectTo whose url
\* contains a login-required page path while no access credential is stored
\* is rejected without reaching the original function, and every other
\* navigation reaches it, whatever logins, logouts and changes of the page
\* list came before.
C28_GuardRejectsExactly ==
    [][(nav' # nav /\ guardOn) =>
        IF /\ \E i \in 1..Len(AUTH_REQUIRED_PAGES) :
                    Includes(nav'.url, AUTH_REQUIRED_PAGES[i])
           /\ storage.access_token = 0
        THEN nav'.outcome = "rejected"
        ELSE nav'.outcome = "original" /\ ~nav'.prompt]_vars

\* a url that is longer than the page path it contains has been rejected
\* after a login, a logout and a change of the page list
C28_Witness ==
    /\ guardOn /\ nav.outcome = "rejected" /\ Len(nav.url) = MaxUrlLen
    /\ nextTok > 2 /\ storage.access_token = 0
    /\ AUTH_REQUIRED_PAGES = <<<<"b", "a">>>>

\* a step in which fetchAiRecommendations() was called
FetchStep == lastFetch' # NoFetch /\ now' = now

\* a request for the key is in flight
InFlightFor(key) == \E i \in Reqs : reqs[i].state = "flight" /\ reqs[i].key = key

\* C29: a non-null cached result is the response of the request issued for
\* the recorded location key, whatever the overlap of the calls and the
\* order of the responses.
C29_ResultBelongsToKey ==
    /\ cacheState.result # 0 => reqs[cacheState.result].key = cacheState.locationKey
    /\ \A location \in Locations :
            getCachedResult(location) # 0 =>
                reqs[getCachedResult(location)].key = getLocationKey(location)

\* C26: while a request for a location key is in flight, a call for that
\* key without excludeIds issues no new request and gets the promise of a
\* request in flight for that key.
C26_SharesInFlightRequest ==
    [][(FetchStep /\ ~lastFetch'.exclude /\ InFlightFor(lastFetch'.key)) =>
        /\ lastFetch'.kind = "shared"
        /\ reqs' = reqs
        /\ reqs[lastFetch'.req].state = "flight"
        /\ reqs[lastFetch'.req].key = lastFetch'.key]_vars

\* C27: a call without excludeIds that finds a result stored under its key
\* and not older than CACHE_TTL returns that result, issues no request and
\* emits no START; when the stored result is older or stored under another
\* key the call issues a new request.
C27_CacheHitWithinTtl ==
    [][(FetchStep /\ ~lastFetch'.exclude /\ cacheState.result # 0) =>
        IF /\ cacheState.locationKey = lastFetch'.key
           /\ now - cacheState.timestamp <= CACHE_TTL
        THEN /\ lastFetch'.kind = "cached"
             /\ lastFetch'.req = cacheState.result
             /\ ~lastFetch'.start
             /\ reqs' = reqs
        ELSE /\ lastFetch'.kind = "new"
             /\ lastFetch'.start
             /\ reqs[lastFetch'.req].state = "free"
             /\ reqs'[lastFetch'.req].state = "flight"]_vars

\* a result exactly CACHE_TTL old has been returned from the cache, after an
\* earlier result had expired and been fetched again
C27_Witness ==
    /\ lastFetch.kind = "cached"
    /\ now - cacheState.timestamp = CACHE_TTL
    /\ cacheState.result = 2
    /\ reqs[1].state = "ok" /\ reqs[1].key = cacheState.locationKey

====
